---------------------------- MODULE Spec2Model ----------------------------
(***************************************************************************)
(* The decoding pipeline of osmium::io::detail (input_format.hpp): one     *)
(* producer thread pushing chunks onto the input queue, one worker thread  *)
(* executing Parser::operator()(), one consumer thread popping the output  *)
(* queue of futures, and the header promise.                               *)
(***************************************************************************)
EXTENDS Integers, Sequences, FiniteSets

\* ------------------------------------------------------------------ bounds
\* Largest number of data chunks the producer pushes before the sentinel.
MaxChunks == 3
\* Capacity of the (bounded, blocking) input queue.
InCap == 2
\* Capacity of the (bounded, blocking) output queue.
OutCap == 2

\* The failures run() can end with (values of std::exception_ptr).
Errors == {"decode_error", "io_error"}

VARIABLES
    nchunks,            \* number of data chunks of this run's input
    sent,               \* chunks the producer has pushed so far
    m_input_queue,      \* string_queue_type: chunks in flight
    m_output_queue,     \* osmdata_queue_type: futures in flight (by index)
    futures,            \* shared state of every promise/future pushed, in push order
    m_header_promise,   \* shared state of std::promise<Header>
    m_header_is_done,
    m_input_queue_done,
    pc,                 \* the worker's position in operator()()
    exception,          \* the exception run() ended with ("none": no failure)
    cur,                \* the chunk run() is decoding (<<>>: none)
    header_sets,        \* calls of set_value/set_exception on m_header_promise
    cpc,                \* the consumer's position
    consumed,           \* indices of the futures the consumer has popped
    header_seen,        \* what the caller awaiting the header future got
    m_callbacks,        \* ParserFactory: the map from file format to create function
    first_registered,   \* per format, the create function of the first register_parser call
    reg_ret,            \* the last call on the ParserFactory and what it returned
    race,               \* per thread, its position in an unsynchronized ParserFactory call
    race_start,         \* m_callbacks before the threads' calls
    hdr,                \* a Header object
    last_set,           \* per Header field, the value last passed to its mutator
    hdr_call            \* the last mutator called on hdr, with its argument

vars == <<nchunks, sent, m_input_queue, m_output_queue, futures,
          m_header_promise, m_header_is_done, m_input_queue_done, pc,
          exception, cur, header_sets, cpc, consumed, header_seen,
          m_callbacks, first_registered, reg_ret, race, race_start,
          hdr, last_set, hdr_call>>

\* The state of the ParserFactory and of the Header object.
registryVars == <<m_callbacks, first_registered, reg_ret, race, race_start>>
headerObjVars == <<hdr, last_set, hdr_call>>
objectVars == <<registryVars, headerObjVars>>

\* The state of the pipeline: queues, header promise, the three threads.
pipelineVars == <<nchunks, sent, m_input_queue, m_output_queue, futures,
                  m_header_promise, m_header_is_done, m_input_queue_done, pc,
                  exception, cur, header_sets, cpc, consumed, header_seen>>

\* --------------------------------------------------------------- header.hpp
\* A default-constructed osmium::io::Header.
Header ==
    [m_bounds |-> <<>>,
     m_has_multiple_object_versions |-> FALSE,
     m_generator |-> "",
     m_pbf_has_dense_nodes |-> FALSE]

\* const Bounds& bounds() const
bounds_const(h) == h.m_bounds

\* Header& bounds(const Bounds& bounds)
bounds(h, b) == [h EXCEPT !.m_bounds = b]

\* bool has_multiple_object_versions() const
has_multiple_object_versions_const(h) == h.m_has_multiple_object_versions

\* Header& has_multiple_object_versions(bool h)
has_multiple_object_versions(h, v) ==
    [h EXCEPT !.m_has_multiple_object_versions = v]

\* const std::string& generator() const
generator_const(h) == h.m_generator

\* Header& generator(const std::string& generator)
generator(h, g) == [h EXCEPT !.m_generator = g]

\* bool pbf_has_dense_nodes() const
pbf_has_dense_nodes_const(h) == h.m_pbf_has_dense_nodes

\* Mutant: the flag is stored in the other bool of the Header.
pbf_has_dense_nodes_other_flag(h, v) ==
    [h EXCEPT !.m_has_multiple_object_versions = v]

\* Header& pbf_has_dense_nodes(bool h)
pbf_has_dense_nodes(h, v) == [h EXCEPT !.m_pbf_has_dense_nodes = v]

\* The Header values a decoder derives from its input.
HeaderValues == {Header, generator(Header, "test")}

\* ----------------------------------------------------- promise / future
\* Shared state of a std::promise / std::future pair.
Pending == [state |-> "pending"]
Value(v) == [state |-> "value", val |-> v]
Error(e) == [state |-> "error", exc |-> e]

\* promise.set_value(v): stores v in a shared state that is not yet ready
\* (on a ready state the call fails with future_error and stores nothing).
set_value(p, v) == IF p = Pending THEN Value(v) ELSE p

\* promise.set_exception(e), likewise.
set_exception(p, e) == IF p = Pending THEN Error(e) ELSE p

\* ------------------------------------------------------------ chunks, buffers
\* The i-th data chunk: a non-empty string.
Chunk(i) == <<i>>

\* The empty string marks the end of the input.
Sentinel == <<>>

\* std::string::empty()
empty(s) == Len(s) = 0

\* osmium::memory::Buffer{}: the invalid (empty) buffer marking end of file.
EmptyBuffer == <<>>

\* The buffer a decoder assembles from one data chunk: one entity.
Decode(c) == <<[entity |-> c]>>

\* ------------------------------------------------------------------ queues
\* Queue::push blocks while the queue is full.
CanPush(q, cap) == Len(q) < cap

\* Queue::wait_and_pop blocks while the queue is empty.
CanPop(q) == Len(q) > 0

\* The pipeline after the construction of the Parser.
PipelineInit ==
    /\ nchunks \in 0..MaxChunks
    /\ sent = 0
    /\ m_input_queue = <<>>
    /\ m_output_queue = <<>>
    /\ futures = <<>>
    /\ m_header_promise = Pending
    /\ m_header_is_done = FALSE
    /\ m_input_queue_done = FALSE
    /\ pc = "run"
    /\ exception = "none"
    /\ cur = <<>>
    /\ header_sets = 0
    /\ cpc = "pop"
    /\ consumed = <<>>
    /\ header_seen = Pending

\* The variables each thread leaves alone.
producerVars == <<nchunks, sent>>
consumerVars == <<cpc, consumed, header_seen>>
headerVars == <<m_header_promise, m_header_is_done, header_sets>>
outputVars == <<m_output_queue, futures>>
inputVars == <<m_input_queue, m_input_queue_done>>

\* ---------------------------------------------------------------- producer
\* The producer pushes the data chunks in order, then the sentinel.
ProducerPush ==
    /\ sent <= nchunks
    /\ CanPush(m_input_queue, InCap)
    /\ m_input_queue' = Append(m_input_queue,
                               IF sent < nchunks THEN Chunk(sent + 1) ELSE Sentinel)
    /\ sent' = sent + 1
    /\ UNCHANGED <<nchunks, m_input_queue_done, outputVars, headerVars, pc,
                   exception, cur, consumerVars,
                   objectVars>>

\* ------------------------------------------------- Parser: output helpers
\* send_to_output_queue, first half: a new promise, its future pushed.
send_to_output_queue_push(next) ==
    /\ CanPush(m_output_queue, OutCap)
    /\ futures' = Append(futures, Pending)
    /\ m_output_queue' = Append(m_output_queue, Len(futures) + 1)
    /\ pc' = next

\* Mutant: the buffer has been moved from before set_value gets it.
send_to_output_queue_set_moved(buffer, next) ==
    /\ futures' = [futures EXCEPT ![Len(futures)] = set_value(@, EmptyBuffer)]
    /\ UNCHANGED m_output_queue
    /\ pc' = next

\* Mutant: the worker goes on without resolving the promise it pushed.
send_to_output_queue_set_abandoned(buffer, next) ==
    /\ UNCHANGED futures
    /\ UNCHANGED m_output_queue
    /\ pc' = next

\* send_to_output_queue, second half: promise.set_value(std::move(buffer)).
send_to_output_queue_set(buffer, next) ==
    /\ futures' = [futures EXCEPT ![Len(futures)] = set_value(@, buffer)]
    /\ UNCHANGED m_output_queue
    /\ pc' = next

\* send_exception, first half: a new promise, its future pushed.
send_exception_push(next) ==
    /\ CanPush(m_output_queue, OutCap)
    /\ futures' = Append(futures, Pending)
    /\ m_output_queue' = Append(m_output_queue, Len(futures) + 1)
    /\ pc' = next

\* Mutant: the promise is destroyed without set_exception, which leaves
\* broken_promise in the future.
send_exception_set_broken(e, next) ==
    /\ futures' = [futures EXCEPT ![Len(futures)] = set_exception(@, "broken_promise")]
    /\ UNCHANGED m_output_queue
    /\ pc' = next

\* send_exception, second half: promise.set_exception(exception).
send_exception_set(e, next) ==
    /\ futures' = [futures EXCEPT ![Len(futures)] = set_exception(@, e)]
    /\ UNCHANGED m_output_queue
    /\ pc' = next

\* --------------------------------------------- run(): the format's decoder
\* run() takes the next chunk; the empty chunk ends the input.
RunPop ==
    /\ pc = "run"
    /\ ~m_input_queue_done
    /\ CanPop(m_input_queue)
    /\ cur' = Head(m_input_queue)
    /\ m_input_queue' = Tail(m_input_queue)
    /\ m_input_queue_done' = empty(Head(m_input_queue))
    /\ UNCHANGED <<producerVars, outputVars, headerVars, pc, exception,
                   consumerVars,
                   objectVars>>

\* run() resolves the header: with what it derived from the input, or, at
\* the end of the input, with a default Header.
RunSetHeader ==
    /\ pc = "run"
    /\ ~m_header_is_done
    /\ \E h \in (IF m_input_queue_done THEN {Header} ELSE HeaderValues) :
          m_header_promise' = set_value(m_header_promise, h)
    /\ m_header_is_done' = TRUE
    /\ header_sets' = header_sets + 1
    /\ UNCHANGED <<producerVars, inputVars, outputVars, pc, exception, cur,
                   consumerVars,
                   objectVars>>

\* run() sends the batch decoded from the chunk at hand.
RunSendPush ==
    /\ pc = "run"
    /\ ~empty(cur)
    /\ send_to_output_queue_push("run_send")
    /\ UNCHANGED <<producerVars, inputVars, headerVars, exception, cur,
                   consumerVars,
                   objectVars>>

RunSendSet ==
    /\ pc = "run_send"
    /\ send_to_output_queue_set(Decode(cur), "run")
    /\ cur' = <<>>
    /\ UNCHANGED <<producerVars, inputVars, headerVars, exception,
                   consumerVars,
                   objectVars>>

\* run() fails, at any point.
RunThrow ==
    /\ pc = "run"
    /\ \E e \in Errors : exception' = e
    /\ pc' = "catch"
    /\ UNCHANGED <<producerVars, inputVars, outputVars, headerVars, cur,
                   consumerVars,
                   objectVars>>

\* run() returns: the input is at its end and the header is resolved.
RunReturn ==
    /\ pc = "run"
    /\ m_input_queue_done
    /\ m_header_is_done
    /\ pc' = "eof_push"
    /\ UNCHANGED <<producerVars, inputVars, outputVars, headerVars, exception,
                   cur, consumerVars,
                   objectVars>>

\* ------------------------------------------------------ Parser::operator()
\* Where the catch block goes on after m_header_promise.set_exception(): on
\* a promise that is already resolved the call throws future_error, which
\* nothing catches, so the failure leaves operator()() and the thread.
after_set_exception(p) == IF p = Pending THEN "exc_push" ELSE "terminated"

\* Mutant: set_exception on the header promise without the guard.
CatchHeader_Unguarded ==
    /\ pc = "catch"
    /\ m_header_is_done' = TRUE
    /\ m_header_promise' = set_exception(m_header_promise, exception)
    /\ header_sets' = header_sets + 1
    /\ pc' = after_set_exception(m_header_promise)
    /\ UNCHANGED <<producerVars, inputVars, outputVars, exception, cur,
                   consumerVars,
                   objectVars>>

\* Mutant: the flag is set, the promise is forgotten.
CatchHeader_NoPromise ==
    /\ pc = "catch"
    /\ m_header_is_done' = TRUE
    /\ UNCHANGED <<m_header_promise, header_sets>>
    /\ pc' = "exc_push"
    /\ UNCHANGED <<producerVars, inputVars, outputVars, exception, cur,
                   consumerVars,
                   objectVars>>

\* Mutant: the guard is inverted, if (m_header_is_done).
CatchHeader_Inverted ==
    /\ pc = "catch"
    /\ IF m_header_is_done
         THEN /\ m_header_is_done' = TRUE
              /\ m_header_promise' = set_exception(m_header_promise, exception)
              /\ header_sets' = header_sets + 1
              /\ pc' = after_set_exception(m_header_promise)
         ELSE /\ UNCHANGED headerVars
              /\ pc' = "exc_push"
    /\ UNCHANGED <<producerVars, inputVars, outputVars, exception, cur,
                   consumerVars,
                   objectVars>>

\* Mutant: send_exception is called inside the if, so only when the header
\* was not done.
CatchHeader_SendInsideIf ==
    /\ pc = "catch"
    /\ IF ~m_header_is_done
         THEN /\ m_header_is_done' = TRUE
              /\ m_header_promise' = set_exception(m_header_promise, exception)
              /\ header_sets' = header_sets + 1
              /\ pc' = after_set_exception(m_header_promise)
         ELSE /\ UNCHANGED headerVars
              /\ pc' = "eof_push"
    /\ UNCHANGED <<producerVars, inputVars, outputVars, exception, cur,
                   consumerVars,
                   objectVars>>

\* catch (...): the header promise gets the exception unless it is done.
CatchHeader ==
    /\ pc = "catch"
    /\ IF ~m_header_is_done
         THEN /\ m_header_is_done' = TRUE
              /\ m_header_promise' = set_exception(m_header_promise, exception)
              /\ header_sets' = header_sets + 1
              /\ pc' = after_set_exception(m_header_promise)
         ELSE /\ UNCHANGED headerVars
              /\ pc' = "exc_push"
    /\ UNCHANGED <<producerVars, inputVars, outputVars, exception, cur,
                   consumerVars,
                   objectVars>>

\* send_exception(exception)
CatchSendPush ==
    /\ pc = "exc_push"
    /\ send_exception_push("exc_set")
    /\ UNCHANGED <<producerVars, inputVars, headerVars, exception, cur,
                   consumerVars,
                   objectVars>>

\* Mutant: the end of file marker is sent inside the try block, so not
\* after a failure.
CatchSendSet_NoEof ==
    /\ pc = "exc_set"
    /\ send_exception_set(exception, "check_drain")
    /\ UNCHANGED <<producerVars, inputVars, headerVars, exception, cur,
                   consumerVars,
                   objectVars>>

CatchSendSet ==
    /\ pc = "exc_set"
    /\ send_exception_set(exception, "eof_push")
    /\ UNCHANGED <<producerVars, inputVars, headerVars, exception, cur,
                   consumerVars,
                   objectVars>>

\* Mutant: the input queue is drained before the end of file marker is sent.
EofPush_DrainFirst ==
    /\ pc = "eof_push"
    /\ IF ~m_input_queue_done
         THEN /\ CanPop(m_input_queue)
              /\ m_input_queue' = Tail(m_input_queue)
              /\ m_input_queue_done' = empty(Head(m_input_queue))
              /\ pc' = pc
              /\ UNCHANGED outputVars
         ELSE /\ send_to_output_queue_push("eof_set")
              /\ UNCHANGED inputVars
    /\ UNCHANGED <<producerVars, headerVars, exception, cur, consumerVars,
                   objectVars>>

\* end of file marker: send_to_output_queue(osmium::memory::Buffer{})
EofPush ==
    /\ pc = "eof_push"
    /\ send_to_output_queue_push("eof_set")
    /\ UNCHANGED <<producerVars, inputVars, headerVars, exception, cur,
                   consumerVars,
                   objectVars>>

EofSet ==
    /\ pc = "eof_set"
    /\ send_to_output_queue_set(EmptyBuffer, "check_drain")
    /\ UNCHANGED <<producerVars, inputVars, headerVars, exception, cur,
                   consumerVars,
                   objectVars>>

\* Mutant: the queue is never drained.
CheckDrain_Never ==
    /\ pc = "check_drain"
    /\ pc' = "done"
    /\ UNCHANGED <<producerVars, inputVars, outputVars, headerVars, exception,
                   cur, consumerVars,
                   objectVars>>

\* Mutant: the queue is drained whether or not the input is done.
CheckDrain_Always ==
    /\ pc = "check_drain"
    /\ pc' = "drain"
    /\ UNCHANGED <<producerVars, inputVars, outputVars, headerVars, exception,
                   cur, consumerVars,
                   objectVars>>

\* if (!m_input_queue_done) drain_queue();
CheckDrain ==
    /\ pc = "check_drain"
    /\ pc' = IF ~m_input_queue_done THEN "drain" ELSE "done"
    /\ UNCHANGED <<producerVars, inputVars, outputVars, headerVars, exception,
                   cur, consumerVars,
                   objectVars>>

\* Mutant: the loop condition is inverted, while (s.empty()).
drain_queue_inverted ==
    /\ pc = "drain"
    /\ CanPop(m_input_queue)
    /\ m_input_queue' = Tail(m_input_queue)
    /\ pc' = IF empty(Head(m_input_queue)) THEN "drain" ELSE "done"
    /\ UNCHANGED <<producerVars, m_input_queue_done, outputVars, headerVars,
                   exception, cur, consumerVars,
                   objectVars>>

\* drain_queue(): one turn of do { wait_and_pop(s); } while (!s.empty());
drain_queue ==
    /\ pc = "drain"
    /\ CanPop(m_input_queue)
    /\ m_input_queue' = Tail(m_input_queue)
    /\ pc' = IF ~empty(Head(m_input_queue)) THEN "drain" ELSE "done"
    /\ UNCHANGED <<producerVars, m_input_queue_done, outputVars, headerVars,
                   exception, cur, consumerVars,
                   objectVars>>

\* ---------------------------------------------------------------- consumer
\* The consumer pops the next future off the output queue.
ConsumerPop ==
    /\ cpc = "pop"
    /\ CanPop(m_output_queue)
    /\ consumed' = Append(consumed, Head(m_output_queue))
    /\ m_output_queue' = Tail(m_output_queue)
    /\ cpc' = "get"
    /\ UNCHANGED <<producerVars, inputVars, futures, headerVars, pc, exception,
                   cur, header_seen,
                   objectVars>>

\* future.get() returns once the promise is resolved; the consumer stops at
\* the empty buffer.
ConsumerGet ==
    /\ cpc = "get"
    /\ futures[consumed[Len(consumed)]] # Pending
    /\ cpc' = IF futures[consumed[Len(consumed)]] = Value(EmptyBuffer)
                THEN "done" ELSE "pop"
    /\ UNCHANGED <<producerVars, inputVars, outputVars, headerVars, pc,
                   exception, cur, consumed, header_seen,
                   objectVars>>

\* The caller awaiting the header gets it once the promise is resolved.
HeaderGet ==
    /\ header_seen = Pending
    /\ m_header_promise # Pending
    /\ header_seen' = m_header_promise
    /\ UNCHANGED <<producerVars, inputVars, outputVars, headerVars, pc,
                   exception, cur, cpc, consumed,
                   objectVars>>

\* ----------------------------------------------------------- ParserFactory
\* osmium::io::file_format: the formats a file can declare.
Formats == {"unknown", "xml", "pbf"}

\* as_string(file_format): the display name of a format, as characters.
as_string(format) ==
    CASE format = "xml" -> <<"X", "M", "L">>
      [] format = "pbf" -> <<"P", "B", "F">>
      [] OTHER -> <<"u", "n", "k", "n", "o", "w", "n">>

\* The create functions the format modules register.
Factories == {"create_a", "create_b"}

\* The names of the files opened, as characters.
Filenames ==
    {<<"x", ".", "o", "s", "m">>, <<"y", ".", "p", "b", "f">>}

\* osmium::io::File: what get_creator_function reads of it.
Files == [filename : Filenames, format : Formats]

\* ParserFactory(): m_callbacks() is the empty map.
EmptyCallbacks == [k \in {} |-> k]

\* Every std::map<file_format, create_parser_type>.
CallbackMaps == UNION {[D -> Factories] : D \in SUBSET Formats}

\* The three literals of the message of get_creator_function.
MsgCanNotOpen ==
    <<"C", "a", "n", " ", "n", "o", "t", " ", "o", "p", "e", "n", " ",
      "f", "i", "l", "e", " ", "'">>
MsgWithType ==
    <<"'", " ", "w", "i", "t", "h", " ", "t", "y", "p", "e", " ", "'">>
MsgNoSupport ==
    <<"'", ".", " ", "N", "o", " ", "s", "u", "p", "p", "o", "r", "t",
      " ", "f", "o", "r", " ", "r", "e", "a", "d", "i", "n", "g", " ",
      "t", "h", "i", "s", " ", "f", "o", "r", "m", "a", "t", " ", "i",
      "n", " ", "t", "h", "i", "s", " ", "p", "r", "o", "g", "r", "a",
      "m", ".">>

\* Mutant: insert assigns like m_callbacks[format] = create_function, so a
\* second registration replaces the first.
register_parser_overwrite(callbacks, format, create_function) ==
    [callbacks |-> [k \in DOMAIN callbacks \cup {format} |->
                       IF k = format THEN create_function ELSE callbacks[k]],
     ret |-> format \notin DOMAIN callbacks]

\* bool register_parser(format, create_function): std::map::insert leaves
\* an existing entry alone; .second tells whether the pair was inserted.
register_parser(callbacks, format, create_function) ==
    IF format \in DOMAIN callbacks
      THEN [callbacks |-> callbacks, ret |-> FALSE]
      ELSE [callbacks |-> [k \in DOMAIN callbacks \cup {format} |->
                              IF k = format THEN create_function ELSE callbacks[k]],
            ret |-> TRUE]

\* Mutant: the message leaves out the name of the file.
get_creator_function_no_filename(callbacks, file) ==
    IF file.format \notin DOMAIN callbacks
      THEN [callbacks |-> callbacks,
            throws |-> "std::runtime_error",
            what |-> MsgCanNotOpen \o MsgWithType
                        \o as_string(file.format) \o MsgNoSupport]
      ELSE [callbacks |-> callbacks,
            throws |-> "nothing",
            ret |-> callbacks[file.format]]

\* create_parser_type get_creator_function(const osmium::io::File& file):
\* find, then either throw std::runtime_error or return it->second.
get_creator_function(callbacks, file) ==
    IF file.format \notin DOMAIN callbacks
      THEN [callbacks |-> callbacks,
            throws |-> "std::runtime_error",
            what |-> MsgCanNotOpen \o file.filename \o MsgWithType
                        \o as_string(file.format) \o MsgNoSupport]
      ELSE [callbacks |-> callbacks,
            throws |-> "nothing",
            ret |-> callbacks[file.format]]

\* No call has been made on the ParserFactory yet.
NoCall == [op |-> "none"]

\* The threads that call the ParserFactory without synchronization.
Threads == {"t1", "t2"}

\* ParserFactory(), no call made, the threads idle.
RegistryInit ==
    /\ m_callbacks = EmptyCallbacks
    /\ first_registered = EmptyCallbacks
    /\ reg_ret = NoCall
    /\ race = [t \in Threads |-> [at |-> "idle"]]
    /\ race_start = EmptyCallbacks

\* One call of register_parser, made while no other call is running.
RegisterParser ==
    /\ \E format \in Formats, create_function \in Factories :
          LET r == register_parser(m_callbacks, format, create_function) IN
          /\ m_callbacks' = r.callbacks
          /\ reg_ret' = [op |-> "register_parser", format |-> format,
                         create_function |-> create_function, ret |-> r.ret]
          /\ first_registered' =
                IF format \in DOMAIN first_registered
                  THEN first_registered
                  ELSE [k \in DOMAIN first_registered \cup {format} |->
                           IF k = format THEN create_function
                                         ELSE first_registered[k]]
    /\ UNCHANGED <<race, race_start, headerObjVars, pipelineVars>>

\* One call of get_creator_function, made while no other call is running.
GetCreatorFunction ==
    /\ \E file \in Files :
          LET r == get_creator_function(m_callbacks, file) IN
          /\ m_callbacks' = r.callbacks
          /\ reg_ret' = [op |-> "get_creator_function", file |-> file,
                         result |-> [x \in DOMAIN r \ {"callbacks"} |-> r[x]]]
    /\ UNCHANGED <<first_registered, race, race_start, headerObjVars,
                   pipelineVars>>

RegistryNext == RegisterParser \/ GetCreatorFunction

\* ------------------------------------------------------------------ Header
\* The bounding boxes passed to bounds(): the default (undefined) one and
\* two boxes given by their corners.
BoundsValues == {<<>>, <<0, 0, 10, 10>>, <<-5, -5, 5, 5>>}

\* The strings passed to generator().
GeneratorValues == {"", "test", "osmium"}

\* A default-constructed Header, no mutator called.
HeaderObjInit ==
    /\ hdr = Header
    /\ last_set = [bounds |-> <<>>,
                   has_multiple_object_versions |-> FALSE,
                   generator |-> "",
                   pbf_has_dense_nodes |-> FALSE]
    /\ hdr_call = NoCall

HeaderSetBounds ==
    /\ \E b \in BoundsValues :
          /\ hdr' = bounds(hdr, b)
          /\ last_set' = [last_set EXCEPT !.bounds = b]
          /\ hdr_call' = [op |-> "bounds", arg |-> b]
    /\ UNCHANGED <<registryVars, pipelineVars>>

HeaderSetMultipleObjectVersions ==
    /\ \E v \in BOOLEAN :
          /\ hdr' = has_multiple_object_versions(hdr, v)
          /\ last_set' = [last_set EXCEPT !.has_multiple_object_versions = v]
          /\ hdr_call' = [op |-> "has_multiple_object_versions", arg |-> v]
    /\ UNCHANGED <<registryVars, pipelineVars>>

HeaderSetGenerator ==
    /\ \E g \in GeneratorValues :
          /\ hdr' = generator(hdr, g)
          /\ last_set' = [last_set EXCEPT !.generator = g]
          /\ hdr_call' = [op |-> "generator", arg |-> g]
    /\ UNCHANGED <<registryVars, pipelineVars>>

HeaderSetDenseNodes ==
    /\ \E v \in BOOLEAN :
          /\ hdr' = pbf_has_dense_nodes(hdr, v)
          /\ last_set' = [last_set EXCEPT !.pbf_has_dense_nodes = v]
          /\ hdr_call' = [op |-> "pbf_has_dense_nodes", arg |-> v]
    /\ UNCHANGED <<registryVars, pipelineVars>>

HeaderNext ==
    \/ HeaderSetBounds
    \/ HeaderSetMultipleObjectVersions
    \/ HeaderSetGenerator
    \/ HeaderSetDenseNodes

\* The pipeline at rest, for the calls on the ParserFactory and the Header.
PipelineIdle == PipelineInit /\ nchunks = 0

\* ------------------------------------ ParserFactory, calls that overlap
\* ParserFactory has no lock: register_parser and get_creator_function act
\* on the std::map directly, so calls of two threads can overlap. An insert
\* is a search for the key followed by the linking of a new node.

\* Any registry, and two threads about to call the ParserFactory.
RaceInit ==
    /\ PipelineIdle
    /\ HeaderObjInit
    /\ m_callbacks \in CallbackMaps
    /\ race_start = m_callbacks
    /\ first_registered = m_callbacks
    /\ reg_ret = NoCall
    /\ race = [t \in Threads |-> [at |-> "idle"]]

\* Is a thread other than t inside an insert that will link a node.
OtherInserting(t) ==
    \E u \in Threads \ {t} : race[u].at = "insert" /\ ~race[u].found

\* register_parser, first half: insert searches the map for the format.
RaceInsertFind(t) ==
    /\ race[t].at = "idle"
    /\ \E format \in Formats, create_function \in Factories :
          race' = [race EXCEPT ![t] =
                      [at |-> "insert", format |-> format,
                       create_function |-> create_function,
                       found |-> format \in DOMAIN m_callbacks]]
    /\ UNCHANGED <<m_callbacks, first_registered, reg_ret, race_start,
                   headerObjVars, pipelineVars>>

\* register_parser, second half: insert found the format and returns false,
\* or it did not and links its node and returns true. When another thread
\* linked a node for the format in between, the map holds two nodes for it
\* and a later find reaches either.
RaceInsertLink(t) ==
    /\ race[t].at = "insert"
    /\ LET format == race[t].format
           linked == [k \in DOMAIN m_callbacks \cup {format} |->
                         IF k = format THEN race[t].create_function
                                       ELSE m_callbacks[k]]
       IN IF race[t].found
            THEN /\ UNCHANGED m_callbacks
                 /\ race' = [race EXCEPT ![t] =
                                [at |-> "returned", op |-> "register_parser",
                                 format |-> format,
                                 create_function |-> race[t].create_function,
                                 ret |-> FALSE]]
            ELSE /\ m_callbacks' \in
                        {linked} \cup
                        (IF format \in DOMAIN m_callbacks THEN {m_callbacks} ELSE {})
                 /\ race' = [race EXCEPT ![t] =
                                [at |-> "returned", op |-> "register_parser",
                                 format |-> format,
                                 create_function |-> race[t].create_function,
                                 ret |-> TRUE]]
    /\ UNCHANGED <<first_registered, reg_ret, race_start, headerObjVars,
                   pipelineVars>>

\* get_creator_function: find on the map. While another thread is linking a
\* node the read races with the write and its outcome is undefined.
RaceLookup(t) ==
    /\ race[t].at = "idle"
    /\ \E file \in Files :
          LET r == get_creator_function(m_callbacks, file)
              read == [x \in DOMAIN r \ {"callbacks"} |-> r[x]]
          IN \E result \in {read} \cup
                           (IF OtherInserting(t)
                              THEN {[throws |-> "undefined"]} ELSE {}) :
                race' = [race EXCEPT ![t] =
                            [at |-> "returned", op |-> "get_creator_function",
                             file |-> file, result |-> result]]
    /\ UNCHANGED <<m_callbacks, first_registered, reg_ret, race_start,
                   headerObjVars, pipelineVars>>

RaceNext ==
    \E t \in Threads : RaceInsertFind(t) \/ RaceInsertLink(t) \/ RaceLookup(t)

\* Two threads, one call each on the ParserFactory, no synchronization.
RaceSpec == RaceInit /\ [][RaceNext]_vars

\* -------------------------------------------------------------------- Init
Init == PipelineInit /\ RegistryInit /\ HeaderObjInit

\* The ParserFactory and a Header as constructed, the pipeline at rest.
ObjectsInit == PipelineIdle /\ RegistryInit /\ HeaderObjInit

\* ------------------------------------------------------------ specification
Run == RunPop \/ RunSetHeader \/ RunSendPush \/ RunSendSet \/ RunThrow \/ RunReturn

Worker ==
    \/ Run
    \/ CatchHeader \/ CatchSendPush \/ CatchSendSet
    \/ EofPush \/ EofSet
    \/ CheckDrain \/ drain_queue

Consumer == ConsumerPop \/ ConsumerGet \/ HeaderGet

Next == ProducerPush \/ Worker \/ Consumer

Spec == Init /\ [][Next]_vars

\* The worker and the consumers are scheduled; the producer may stop pushing
\* at any point.
StalledProducerSpec ==
    /\ Spec
    /\ WF_vars(Worker)
    /\ WF_vars(ConsumerPop)
    /\ WF_vars(ConsumerGet)
    /\ WF_vars(HeaderGet)

\* Calls on the ParserFactory, one at a time.
RegistrySpec == ObjectsInit /\ [][RegistryNext]_vars

\* Calls of the mutators of one Header object.
HeaderSpec == ObjectsInit /\ [][HeaderNext]_vars

\* Every thread that can take a step eventually takes one.
FairSpec ==
    /\ Spec
    /\ WF_vars(ProducerPush)
    /\ WF_vars(Worker)
    /\ WF_vars(ConsumerPop)
    /\ WF_vars(ConsumerGet)
    /\ WF_vars(HeaderGet)

\* ------------------------------------------------------------------ claims
\* What a pushed result turned out to be.
IsBatch(f) == f.state = "value" /\ f.val # EmptyBuffer
IsFailure(f) == f.state = "error"
IsTerminal(f) == f = Value(EmptyBuffer)

\* The worker has pushed and resolved the end of file marker.
TerminalSent == pc \in {"check_drain", "drain", "done"}

\* Has run() failed.
RunFailed == exception # "none"

\* The results the consumer has got so far, in the order it got them.
Observed ==
    [i \in 1..(Len(consumed) - (IF cpc = "get" THEN 1 ELSE 0)) |->
        futures[consumed[i]]]

\* C1: in every run, failed or not, exactly one terminal empty batch is
\* pushed onto the output queue and it is the last item ever pushed: none is
\* pushed before the end of file marker, and from then on (through the drain
\* step, up to the return) the terminal batch is the last of the pushed items
\* and the only empty one.
C1_TerminalOnceAndLast ==
    LET n == Len(futures) IN
    /\ TerminalSent =>
          /\ n >= 1
          /\ IsTerminal(futures[n])
          /\ \A i \in 1..(n - 1) : ~IsTerminal(futures[i])
    /\ ~TerminalSent => \A i \in 1..n : ~IsTerminal(futures[i])

\* C1 witness: a failed run has returned after draining the input, the
\* failing result and the terminal batch pushed.
C1_Witness ==
    /\ pc = "done"
    /\ RunFailed
    /\ ~m_input_queue_done
    /\ Len(futures) >= 2
    /\ IsTerminal(futures[Len(futures)])

\* C2: the items pushed to the output queue are K >= 0 successful batches,
\* then at most one failing result, then the terminal empty batch; the
\* failing result is there exactly when run() failed and carries run()'s
\* failure, and no successful batch follows a failing result.
C2_StreamShape ==
    LET n == Len(futures) IN
    /\ \A i \in 1..(n - 1) : futures[i] # Pending
    /\ \A i \in 1..n : \A j \in (i + 1)..n :
          /\ IsFailure(futures[i]) => ~IsBatch(futures[j]) /\ ~IsFailure(futures[j])
          /\ ~IsTerminal(futures[i])
    /\ \A i \in 1..n :
          IsFailure(futures[i]) => RunFailed /\ futures[i] = Error(exception)
    /\ TerminalSent =>
          /\ n >= 1
          /\ IsTerminal(futures[n])
          /\ RunFailed <=> (n >= 2 /\ IsFailure(futures[n - 1]))
          /\ \A i \in 1..(n - 1) :
                IsBatch(futures[i]) \/ (i = n - 1 /\ IsFailure(futures[i]))

\* C2 witness: a run that failed after two successful batches has returned.
C2_Witness ==
    /\ pc = "done"
    /\ Len(futures) = 4
    /\ IsBatch(futures[1])
    /\ IsBatch(futures[2])
    /\ IsFailure(futures[3])
    /\ IsTerminal(futures[4])

\* The chunk a successful batch was decoded from.
ChunkOf(f) == f.val[1].entity

\* C3: output order follows input order. The consumer pops the futures in
\* the order the worker pushed them, none reordered, duplicated or lost; the
\* batches are pushed in the order of their chunks; and when run() did not
\* fail and sent one batch per data chunk, the consumer that has seen the
\* terminal batch has observed batch(chunk 1), ..., batch(chunk N), terminal.
C3_OutputOrder ==
    LET n == Len(futures) IN
    /\ consumed \o m_output_queue = [i \in 1..n |-> i]
    /\ \A i \in 1..n : \A j \in (i + 1)..n :
          IsBatch(futures[i]) /\ IsBatch(futures[j]) =>
              ChunkOf(futures[i])[1] < ChunkOf(futures[j])[1]
    /\ (cpc = "done" /\ ~RunFailed /\ n = nchunks + 1) =>
          Observed = [i \in 1..(nchunks + 1) |->
                         IF i <= nchunks THEN Value(Decode(Chunk(i)))
                                         ELSE Value(EmptyBuffer)]

\* C3 witness: chunks [rec1, rec2, sentinel]; the consumer has observed two
\* batches and the terminal batch.
C3_Witness ==
    /\ cpc = "done"
    /\ ~RunFailed
    /\ nchunks = 2
    /\ Len(Observed) = 3
    /\ IsBatch(Observed[1])
    /\ IsBatch(Observed[2])

\* The worker is past its catch block after a failure of run().
FailureHandled ==
    RunFailed /\ pc \in {"exc_push", "exc_set", "eof_push", "eof_set",
                         "check_drain", "drain", "done"}

\* C4: the header promise is resolved at most once in a run: no second
\* set_value or set_exception is ever called on it, and in particular the
\* catch block does not call set_exception on a header that run() resolved
\* before it failed.
C4_HeaderResolvedAtMostOnce ==
    /\ header_sets <= 1
    /\ (m_header_promise # Pending) <=> (header_sets = 1)
    /\ (FailureHandled /\ m_header_promise.state = "value") => header_sets = 1

\* C4 witness: run() failed after it resolved the header with a value, and
\* the catch block has been executed.
C4_Witness ==
    /\ FailureHandled
    /\ m_header_promise.state = "value"
    /\ header_sets = 1

\* C5: when the entry invocation has returned, the header promise is
\* resolved, with a Header value or with an error; after a run() that did
\* not fail it holds a Header value.
C5_HeaderResolvedAtReturn ==
    pc = "done" =>
        /\ m_header_promise.state \in {"value", "error"}
        /\ ~RunFailed => m_header_promise.state = "value"
        /\ m_header_promise.state = "error" => RunFailed

\* C5 witness: a run that did not fail has returned with the header resolved
\* to the default Header.
C5_Witness ==
    /\ pc = "done"
    /\ ~RunFailed
    /\ m_header_promise = Value(Header)

\* C5 witness of the failure path: a failed run has returned with the header
\* resolved to the failure.
C5_WitnessFailed ==
    /\ pc = "done"
    /\ RunFailed
    /\ m_header_promise.state = "error"

\* C6: the header is resolved no later than the failure is known: whenever a
\* failing result has been pushed onto the output queue (resolved or not
\* yet), and so whenever the terminal batch of a failed run has been pushed,
\* the header promise is resolved.
C6_HeaderResolvedBeforeFailure ==
    LET n == Len(futures) IN
    /\ (\E i \in 1..n : IsFailure(futures[i])) => m_header_promise # Pending
    /\ pc = "exc_set" => m_header_promise # Pending
    /\ (RunFailed /\ pc \in {"eof_set", "check_drain", "drain", "done"}) =>
          m_header_promise # Pending

\* C6 witness: the failing result has just been pushed, not yet resolved,
\* and the header already carries the failure.
C6_Witness ==
    /\ pc = "exc_set"
    /\ Len(futures) >= 1
    /\ futures[Len(futures)] = Pending
    /\ m_header_promise.state = "error"

\* C7, in states: a header resolved with an error carries run()'s failure,
\* the same one every failing result on the output queue carries; once the
\* failure is handled the header is resolved; and the header never changes
\* after the caller awaiting it has got it.
C7_SameFailureState ==
    /\ m_header_promise.state = "error" =>
          RunFailed /\ m_header_promise = Error(exception)
    /\ \A i \in 1..Len(futures) :
          IsFailure(futures[i]) =>
              /\ futures[i] = Error(exception)
              /\ m_header_promise.state = "error" => m_header_promise = futures[i]
    /\ (FailureHandled /\ pc # "exc_push" /\ pc # "exc_set") =>
          \E i \in 1..Len(futures) : futures[i] = Error(exception)
    /\ FailureHandled => m_header_promise # Pending
    /\ header_seen # Pending => m_header_promise = header_seen

\* C7, in steps: the step that handles the failure resolves an unresolved
\* header with the failure and leaves a resolved header as it is.
C7_SameFailureStep ==
    (pc = "catch" /\ pc' # "catch") =>
        m_header_promise' = IF m_header_promise = Pending
                              THEN Error(exception)
                              ELSE m_header_promise

\* C7: when run() fails with the header unresolved, the header is resolved
\* with the same failure that is enqueued as the failing result; when run()
\* fails after the header was resolved with a value, the header keeps that
\* value and only the batch stream carries the failure.
C7_SameFailure == [](C7_SameFailureState) /\ [][C7_SameFailureStep]_vars

\* C7 witness: both channels carry the same failure.
C7_Witness ==
    /\ pc = "done"
    /\ Len(futures) >= 2
    /\ IsFailure(futures[Len(futures) - 1])
    /\ m_header_promise = futures[Len(futures) - 1]
    /\ header_seen = m_header_promise

\* C7 witness of the other case: the header keeps its value, the batch
\* stream carries the failure.
C7_WitnessValueKept ==
    /\ pc = "done"
    /\ Len(futures) >= 2
    /\ IsFailure(futures[Len(futures) - 1])
    /\ m_header_promise = Value(generator(Header, "test"))
    /\ header_seen = m_header_promise

\* C8: when the entry invocation has returned, the input queue is empty and
\* the producer has pushed every chunk and the sentinel: all of them were
\* popped, by run() or by the drain step.
C8_InputDrained ==
    pc = "done" =>
        /\ m_input_queue = <<>>
        /\ sent = nchunks + 1

\* C8 witness: run() failed before it took any chunk, and the drain step
\* has popped the data chunks and the sentinel.
C8_Witness ==
    /\ pc = "done"
    /\ RunFailed
    /\ ~m_input_queue_done
    /\ nchunks >= 2
    /\ Len(futures) = 2
    /\ m_input_queue = <<>>

\* The producer has pushed every data chunk and the sentinel.
ProducerDone == sent = nchunks + 1

\* The producer is blocked in push: it has a chunk to push and the input
\* queue is full.
ProducerBlocked == sent <= nchunks /\ ~CanPush(m_input_queue, InCap)

\* C9: after run() has failed, a producer that is blocked on push, or still
\* has chunks or the sentinel to push, does not hang: under fair scheduling
\* every blocked push gets room in the input queue and the producer ends up
\* having pushed all its chunks and the sentinel.
C9_ProducerNeverHangs ==
    /\ (RunFailed /\ ProducerBlocked) ~> CanPush(m_input_queue, InCap)
    /\ (RunFailed /\ ~ProducerDone) ~> ProducerDone

\* C9 witness: run() has failed and the worker has pushed its terminal
\* batch while the producer is blocked on a full input queue with chunks
\* left to push.
C9_Witness ==
    /\ RunFailed
    /\ TerminalSent
    /\ ProducerBlocked
    /\ sent < nchunks

\* C10: under fair scheduling every run, failed or not, reaches the state
\* where the entry invocation has returned, the consumer has observed the
\* terminal batch, the caller awaiting the header has got it, and the
\* producer has pushed everything and is not blocked; and it stays there.
C10_NoDeadlock ==
    <>[](/\ pc = "done"
         /\ cpc = "done"
         /\ header_seen # Pending
         /\ ProducerDone
         /\ ~ProducerBlocked)

\* C10 witness: run() failed after it had consumed the sentinel; the worker
\* has returned, the consumer has observed the terminal batch and the
\* producer is done.
C10_Witness ==
    /\ pc = "done"
    /\ cpc = "done"
    /\ RunFailed
    /\ m_input_queue_done
    /\ ProducerDone
    /\ IsTerminal(Observed[Len(Observed)])

\* C11: no failure leaves the worker thread. However run() fails, the entry
\* invocation never ends with an unhandled failure; once it has returned,
\* the failure is data, on the output queue as a failing result and on the
\* header promise as its error unless run() had resolved the header; and
\* under fair scheduling the entry invocation of a failed run does return.
C11_NoFailureEscapes ==
    /\ [](pc # "terminated")
    /\ []((pc = "done" /\ RunFailed) =>
            /\ \E i \in 1..Len(futures) : futures[i] = Error(exception)
            /\ m_header_promise.state = "error" => m_header_promise = Error(exception)
            /\ m_header_promise # Pending)
    /\ RunFailed ~> (pc = "done")

\* C11 witness: run() failed after it resolved the header and consumed the
\* sentinel, and the entry invocation has returned.
C11_Witness ==
    /\ pc = "done"
    /\ RunFailed
    /\ m_input_queue_done
    /\ m_header_promise.state = "value"
    /\ futures[Len(futures) - 1] = Error(exception)

\* C12, in states: the registry holds, for every format, the create function
\* of the first register_parser call for it, and a lookup that succeeded
\* returned that one.
C12_FirstRegistrationState ==
    /\ m_callbacks = first_registered
    /\ (reg_ret.op = "get_creator_function" /\ reg_ret.result.throws = "nothing") =>
          /\ reg_ret.file.format \in DOMAIN first_registered
          /\ reg_ret.result.ret = first_registered[reg_ret.file.format]

\* C12, in steps: register_parser returns true exactly when the format was
\* absent, and then the registry is the old one with that entry added; when
\* the format was present it returns false and the registry is as before.
C12_RegisterStep ==
    reg_ret'.op = "register_parser" =>
        LET format == reg_ret'.format IN
        /\ reg_ret'.ret = (format \notin DOMAIN m_callbacks)
        /\ reg_ret'.ret =>
              /\ DOMAIN m_callbacks' = DOMAIN m_callbacks \cup {format}
              /\ m_callbacks'[format] = reg_ret'.create_function
              /\ \A k \in DOMAIN m_callbacks : m_callbacks'[k] = m_callbacks[k]
        /\ ~reg_ret'.ret => m_callbacks' = m_callbacks

\* C12: registry entries are never overwritten.
C12_NeverOverwritten ==
    [](C12_FirstRegistrationState) /\ [][C12_RegisterStep]_vars

\* C12 witness: a format was registered with one create function, a second
\* register_parser call for it with another one has returned false.
C12_Witness ==
    /\ reg_ret.op = "register_parser"
    /\ reg_ret.ret = FALSE
    /\ reg_ret.format \in DOMAIN m_callbacks
    /\ m_callbacks[reg_ret.format] # reg_ret.create_function

\* Does the string s contain the string sub, verbatim.
Contains(s, sub) ==
    \E i \in 1..(Len(s) - Len(sub) + 1) : SubSeq(s, i, i + Len(sub) - 1) = sub

\* C13: get_creator_function for a file whose format has no entry fails
\* with an error whose message contains the name of the file and the
\* display name of the format verbatim; for a registered format it returns
\* the registered create function and does not fail; either way the
\* registry stays as it was.
C13_LookupStep ==
    reg_ret'.op = "get_creator_function" =>
        LET file == reg_ret'.file
            res == reg_ret'.result IN
        /\ m_callbacks' = m_callbacks
        /\ IF file.format \in DOMAIN m_callbacks
             THEN /\ res.throws = "nothing"
                  /\ res.ret = m_callbacks[file.format]
             ELSE /\ res.throws = "std::runtime_error"
                  /\ Contains(res.what, file.filename)
                  /\ Contains(res.what, as_string(file.format))

C13_Lookup == [][C13_LookupStep]_vars

\* C13 witness: a lookup for an unregistered format has failed while other
\* formats are registered.
C13_Witness ==
    /\ reg_ret.op = "get_creator_function"
    /\ reg_ret.result.throws = "std::runtime_error"
    /\ reg_ret.file.format \notin DOMAIN m_callbacks
    /\ m_callbacks # EmptyCallbacks

\* The drain scenario: the input is the chunks a, b, c and the sentinel; the
\* decoder took a without sending a batch and failed while it was decoding
\* b; the entry invocation has returned.
DrainScenario ==
    /\ pc = "done"
    /\ nchunks = 3
    /\ RunFailed
    /\ cur = Chunk(2)
    /\ \A i \in 1..Len(futures) : ~IsBatch(futures[i])

\* C14: in the drain scenario, after the run the input queue is empty, c and
\* the sentinel popped by the drain step and not by run(), and the complete
\* output stream is the failing result, then the terminal empty batch.
C14_DrainScenario ==
    DrainScenario =>
        /\ m_input_queue = <<>>
        /\ ProducerDone
        /\ ~m_input_queue_done
        /\ futures = <<Error(exception), Value(EmptyBuffer)>>
        /\ cpc = "done" => Observed = futures

\* C14 witness: the drain scenario has happened and the consumer has
\* observed the whole output stream.
C14_Witness ==
    /\ DrainScenario
    /\ m_input_queue = <<>>
    /\ sent = 4
    /\ cpc = "done"
    /\ Len(Observed) = 2

\* What a call returns, and the registry it leaves, when it runs alone on
\* the registry callbacks: call is a thread's record of its returned call.
CallAlone(callbacks, call) ==
    IF call.op = "register_parser"
      THEN LET r == register_parser(callbacks, call.format, call.create_function)
           IN [callbacks |-> r.callbacks, call |-> [call EXCEPT !.ret = r.ret]]
      ELSE LET r == get_creator_function(callbacks, call.file)
           IN [callbacks |-> r.callbacks,
               call |-> [call EXCEPT
                            !.result = [x \in DOMAIN r \ {"callbacks"} |-> r[x]]]]

\* Have the calls of threads t and u behaved as t's call executed alone and
\* then u's call executed alone.
AsIfInOrder(t, u) ==
    LET first == CallAlone(race_start, race[t])
        second == CallAlone(first.callbacks, race[u])
    IN /\ first.call = race[t]
       /\ second.call = race[u]
       /\ second.callbacks = m_callbacks

\* C15: the calls on the registry behave as if each was executed atomically:
\* when the calls of the two threads have returned, what they returned and
\* the registry they left are what the two calls give when executed one
\* after the other, in one order or the other. So of two register_parser
\* calls for one absent format exactly one returns true, and a lookup sees
\* the registry before an insertion or after it.
C15_CallsAtomic ==
    (\A t \in Threads : race[t].at = "returned") =>
        \/ AsIfInOrder("t1", "t2")
        \/ AsIfInOrder("t2", "t1")

\* C15, the register_parser case alone: two calls for the same format, absent
\* before, do not both return true.
C15_OneRegistrationWins ==
    ~ /\ \A t \in Threads :
            /\ race[t].at = "returned"
            /\ race[t].op = "register_parser"
            /\ race[t].ret
      /\ race["t1"].format = race["t2"].format

\* C16, in states: as long as no mutator has been called the Header has both
\* flags false and an empty generator; and each accessor returns the value
\* last passed to its own mutator, or the default when there was none.
C16_AccessorsState ==
    /\ hdr_call = NoCall =>
          /\ has_multiple_object_versions_const(hdr) = FALSE
          /\ pbf_has_dense_nodes_const(hdr) = FALSE
          /\ generator_const(hdr) = ""
    /\ bounds_const(hdr) = last_set.bounds
    /\ has_multiple_object_versions_const(hdr) = last_set.has_multiple_object_versions
    /\ generator_const(hdr) = last_set.generator
    /\ pbf_has_dense_nodes_const(hdr) = last_set.pbf_has_dense_nodes

\* C16, in steps: after a mutator its accessor returns the argument, and the
\* accessors of the other three fields return what they returned before.
C16_MutatorStep ==
    LET op == hdr_call'.op IN
    /\ op = "bounds" => bounds_const(hdr') = hdr_call'.arg
    /\ op = "has_multiple_object_versions" =>
          has_multiple_object_versions_const(hdr') = hdr_call'.arg
    /\ op = "generator" => generator_const(hdr') = hdr_call'.arg
    /\ op = "pbf_has_dense_nodes" => pbf_has_dense_nodes_const(hdr') = hdr_call'.arg
    /\ op # "bounds" => bounds_const(hdr') = bounds_const(hdr)
    /\ op # "has_multiple_object_versions" =>
          has_multiple_object_versions_const(hdr')
              = has_multiple_object_versions_const(hdr)
    /\ op # "generator" => generator_const(hdr') = generator_const(hdr)
    /\ op # "pbf_has_dense_nodes" =>
          pbf_has_dense_nodes_const(hdr') = pbf_has_dense_nodes_const(hdr)

\* C16: Header is a pure data holder.
C16_PureDataHolder == [](C16_AccessorsState) /\ [][C16_MutatorStep]_vars

\* C16 witness: all four mutators have been called with values other than
\* the defaults, pbf_has_dense_nodes last.
C16_Witness ==
    /\ hdr_call = [op |-> "pbf_has_dense_nodes", arg |-> TRUE]
    /\ generator_const(hdr) = "test"
    /\ has_multiple_object_versions_const(hdr) = FALSE
    /\ last_set.has_multiple_object_versions = FALSE
    /\ bounds_const(hdr) = <<0, 0, 10, 10>>
    /\ pbf_has_dense_nodes_const(hdr) = TRUE

\* The sentinel has been popped from the input queue: the producer has
\* pushed it and it is no longer in the queue.
SentinelPopped ==
    /\ ProducerDone
    /\ \A i \in 1..Len(m_input_queue) : ~empty(m_input_queue[i])

\* C17, in states: the worker is in the drain step only when neither run()
\* nor the drain step has popped the sentinel, so it never waits for a chunk
\* that cannot come; run() takes no chunk after the sentinel; the drain step
\* is skipped only when run() popped the sentinel; and the worker returns
\* only with the sentinel popped and nothing left in the queue.
C17_SentinelState ==
    /\ pc = "drain" => ~m_input_queue_done /\ ~SentinelPopped
    /\ m_input_queue_done => SentinelPopped
    /\ (pc \in {"run", "run_send", "catch", "exc_push", "exc_set", "eof_push",
                "eof_set", "check_drain"} /\ SentinelPopped) => m_input_queue_done
    /\ pc = "done" => SentinelPopped /\ m_input_queue = <<>>

\* C17, in steps: a step pops the sentinel only when it was not popped
\* before, and it is run() or the drain step that pops it; the worker goes
\* from the check to the drain step exactly when run() has not popped the
\* sentinel; and the drain step ends with the pop of the sentinel.
C17_SentinelStep ==
    /\ (~SentinelPopped /\ SentinelPopped') =>
          /\ pc \in {"run", "drain"}
          /\ Len(m_input_queue) >= 1
          /\ empty(Head(m_input_queue))
          /\ m_input_queue' = Tail(m_input_queue)
    /\ SentinelPopped => (SentinelPopped' /\ m_input_queue' = m_input_queue)
    /\ (pc = "check_drain" /\ pc' # pc) =>
          pc' = IF m_input_queue_done THEN "done" ELSE "drain"
    /\ (pc = "drain" /\ pc' = "done") => (~SentinelPopped /\ SentinelPopped')

\* C17: the sentinel is popped exactly once per run.
C17_SentinelPoppedOnce == [](C17_SentinelState) /\ [][C17_SentinelStep]_vars

\* C17 witness: run() failed after it had popped the sentinel, and the worker
\* has returned without a drain step.
C17_Witness ==
    /\ pc = "done"
    /\ RunFailed
    /\ m_input_queue_done
    /\ nchunks >= 1
    /\ SentinelPopped

\* C17 witness of the other case: run() ended without the sentinel, and the
\* drain step is waiting for it.
C17_WitnessDraining ==
    /\ pc = "drain"
    /\ ~m_input_queue_done
    /\ m_input_queue = <<>>
    /\ ~ProducerDone

\* run() has ended, by returning or by failing.
RunEnded == pc \notin {"run", "run_send"}

\* The worker is between the end of run() and the drain step.
BeforeDrain ==
    pc \in {"catch", "exc_push", "exc_set", "eof_push", "eof_set", "check_drain"}

\* C18, in states: when the worker is in the drain step or has returned, the
\* terminal batch is pushed and resolved, after the failing result if run()
\* failed.
C18_DrainLastState ==
    pc \in {"drain", "done"} =>
        LET n == Len(futures) IN
        /\ n >= 1
        /\ futures[n] = Value(EmptyBuffer)
        /\ RunFailed => (n >= 2 /\ futures[n - 1] = Error(exception))

\* C18, in steps: between the end of run() and the drain step no chunk is
\* popped from the input queue (the queue only grows, by the producer).
C18_NoPopStep ==
    BeforeDrain =>
        /\ Len(m_input_queue') >= Len(m_input_queue)
        /\ SubSeq(m_input_queue', 1, Len(m_input_queue)) = m_input_queue

\* C18: after run() ends the worker pushes the failing result, if any, and
\* the terminal batch before it pops the input queue in the drain step; so
\* once run() has ended the consumer gets to the terminal batch, and the
\* caller awaiting the header gets it, even when the producer pushes nothing
\* more.
C18_OutputBeforeDrain ==
    /\ [](C18_DrainLastState)
    /\ [][C18_NoPopStep]_vars
    /\ RunEnded ~> (cpc = "done" /\ header_seen # Pending)

\* C18 witness: run() failed before the producer pushed anything; the
\* consumer has observed the failure and the terminal batch while the worker
\* waits in the drain step on the empty input queue.
C18_Witness ==
    /\ pc = "drain"
    /\ RunFailed
    /\ sent = 0
    /\ nchunks >= 1
    /\ cpc = "done"
    /\ Len(Observed) = 2
    /\ IsFailure(Observed[1])

\* The worker has pushed a future and not yet resolved its promise.
BetweenPushAndSet == pc \in {"run_send", "exc_set", "eof_set"}

\* C19, in states: only the future pushed last can be unresolved, and it is
\* exactly while the worker is between the push and the resolution; nothing
\* is left unresolved when the worker returns.
C19_PendingState ==
    /\ \A i \in 1..Len(futures) :
           futures[i] = Pending => (i = Len(futures) /\ BetweenPushAndSet)
    /\ BetweenPushAndSet =>
           (Len(futures) >= 1 /\ futures[Len(futures)] = Pending)

\* C19, in steps: a future is pushed unresolved; the worker's step after the
\* push resolves it, pushing nothing and popping no input; a resolved result
\* never changes again.
C19_ResolveStep ==
    /\ Len(futures') >= Len(futures)
    /\ Len(futures') > Len(futures) =>
           /\ Len(futures') = Len(futures) + 1
           /\ futures'[Len(futures')] = Pending
           /\ m_output_queue' = Append(m_output_queue, Len(futures'))
    /\ \A i \in 1..Len(futures) :
           futures[i] # Pending => futures'[i] = futures[i]
    /\ (BetweenPushAndSet /\ pc' # pc) =>
           /\ Len(futures') = Len(futures)
           /\ futures'[Len(futures)] # Pending
           /\ m_output_queue' = m_output_queue
           /\ m_input_queue' = m_input_queue
    /\ (BetweenPushAndSet /\ pc' = pc) =>
           /\ futures' = futures
           /\ Len(m_input_queue') >= Len(m_input_queue)

\* C19: every result the worker pushes is pushed unresolved and resolved
\* exactly once by the worker's next step, before any further push or input
\* pop; a consumer waiting on a popped result gets it in the end.
C19_ResolvedByNextStep ==
    /\ [](C19_PendingState)
    /\ [][C19_ResolveStep]_vars
    /\ (cpc = "get") ~> (cpc # "get")

\* C19 witness: the consumer has popped a result the worker has pushed and
\* not yet resolved, and waits on it.
C19_Witness ==
    /\ cpc = "get"
    /\ futures[consumed[Len(consumed)]] = Pending
    /\ BetweenPushAndSet

\* C19 witness, failing result: the consumer waits on the unresolved future
\* of the failing result.
C19_WitnessFailure ==
    /\ cpc = "get"
    /\ futures[consumed[Len(consumed)]] = Pending
    /\ pc = "exc_set"

=============================================================================
